---- MODULE Spec2Model ----
(***************************************************************************)
(* Model of package berror of lamber92/brick: the chained error carrier    *)
(* defaultError, its constructors, accessors, serialization, structured-   *)
(* log encoding and the code-membership query.                             *)
(*                                                                         *)
(* The repository holds two revisions of the package:                      *)
(*   src/berror/error.go    (pkg = "berror")                               *)
(*   src/unnamed/part_000   (pkg = "part_000")                             *)
(* Both declare type defaultError in package berror, so a build contains   *)
(* exactly one of them; pkg is fixed in the initial state.  Definitions    *)
(* of part_000 whose name collides with error.go carry the suffix          *)
(* _part000.                                                               *)
(*                                                                         *)
(* A Go panic (nil dereference, method call on a nil interface) and a      *)
(* fatal stack overflow are values Fault(kind) returned by the operator    *)
(* in which they occur and propagated by its callers.                      *)
(***************************************************************************)
EXTENDS Integers, Sequences, FiniteSets, TLC

VARIABLES pkg, heap, last

vars == <<pkg, heap, last>>

\* ---------------------------------------------------------------- bounds
\* number of error values a run allocates
MaxObjs == 2
\* application frames on the call stack at every construction site
CallDepth == 2

\* ------------------------------------------------------------ references
\* the nil error interface (no error, "absent")
Nil == 0
\* a nil *defaultError held in an error interface ("typed nil")
NilPtr == -1

Refs == {Nil, NilPtr} \cup (1..Len(heap))

\* dynamic type of the interface value is *defaultError
IsChained(r) == r = NilPtr \/ (r \in 1..Len(heap) /\ heap[r].kind = "chained")

\* dynamic type is some other error type
IsOpaque(r) == r \in 1..Len(heap) /\ heap[r].kind = "opaque"

\* receivers on which a method of *defaultError can be invoked
Receivers == {r \in Refs : IsChained(r)}

\* ---------------------------------------------------------------- values
Fault(kind) == [t |-> "fault", kind |-> kind]
NilDeref == Fault("nil pointer dereference")
Overflow == Fault("stack overflow")
IsFault(v) == v.t = "fault"

RefVal(r) == [t |-> "ref", r |-> r]
BoolVal(b) == [t |-> "bool", b |-> b]
\* the empty Go string ""
EmptyString == [t |-> "string", empty |-> TRUE]
\* the JSON text encoding the tree j
JsonString(j) == [t |-> "string", empty |-> FALSE, json |-> j]
\* the message of the opaque error i
Message(i) == [t |-> "string", empty |-> FALSE, msg |-> i]
NoValue == [t |-> "none"]

\* bcode.Code: the codes the inputs are drawn from, and (Unknown) the code
\* of the sentinel status
Codes == {"InvalidArgument", "NotFound"}
UnknownCode == "Unknown"
\* Code.ToInt: the canonical integer of a code (injective)
ToInt(c) ==
  CASE c = "Unknown" -> 1
    [] c = "InvalidArgument" -> 2
    [] c = "NotFound" -> 3

\* bstatus.Status: an interface value, nil or a status object
NilStatus == [t |-> "nilstatus"]
NoDetail == "nil"
Details == {NoDetail, "d"}
\* bstatus.New(code, reason, detail)
bstatusNew(code, reason, detail) ==
  [t |-> "status", code |-> code, reason |-> reason, detail |-> detail]
\* bstatus.Unknown, the sentinel
Unknown == bstatusNew(UnknownCode, "unknown", NoDetail)
\* statuses handed to New and NewWithSkip
Statuses == {NilStatus, bstatusNew("InvalidArgument", "r", NoDetail),
             bstatusNew("NotFound", "r", "d")}

\* bstack.StackList / []uintptr: a slice.  id names the backing array (the
\* capture that allocated it), len its length; isnil is the nil slice.
NoStack == [t |-> "stack", id |-> 0, len |-> 0, isnil |-> TRUE]
\* the literal bstack.StackList{}: empty, not nil
EmptyStack == [t |-> "stack", id |-> 0, len |-> 0, isnil |-> FALSE]
StacktraceMax == 32
maxStackDepth == 32

Min(a, b) == IF a < b THEN a ELSE b
Max(a, b) == IF a < b THEN b ELSE a

\* bstack.TakeStack(skip, max) called with `depth` frames on the stack
\* (the application's CallDepth plus the library frames above it): the
\* frames left after skipping, at most max of them, in a new array.
TakeStack(skip, max, depth) ==
  [t |-> "stack", id |-> Len(heap) + 1, len |-> Min(max, Max(0, depth - skip)),
   isnil |-> FALSE]

\* ----------------------------------------------------------------- heap
Chained(err, status, stack) ==
  [t |-> "obj", kind |-> "chained", err |-> err, status |-> status, stack |-> stack]
Opaque(err) ==
  [t |-> "obj", kind |-> "opaque", err |-> err, status |-> NilStatus, stack |-> NoStack]

\* what a call leaves behind: the operation, its receiver/first argument,
\* its second argument, the status passed, and what it returned
Call(op, recv, arg, st, res) ==
  [op |-> op, recv |-> recv, arg |-> arg, st |-> st, res |-> res]

\* a constructor's outcome: a fault leaves the heap alone, otherwise the
\* new object is allocated and the reference to it is returned
Construct(op, err, st, obj) ==
  IF IsFault(obj)
  THEN /\ last.op = "none"
       /\ heap' = heap
       /\ last' = Call(op, Nil, err, st, obj)
  ELSE /\ last.op = "none"
       /\ heap' = Append(heap, obj)
       /\ last' = Call(op, Nil, err, st, RefVal(Len(heap) + 1))

\* ============================================================ error.go

\* New: inherit the stack of a *defaultError cause, else capture one
New(status, err) ==
  LET e0 == Chained(Nil, status, NoStack)
      e1 == IF Len(err) > 0 THEN [e0 EXCEPT !.err = err[1]] ELSE e0
  IN IF Len(err) > 0 /\ IsChained(e1.err)
     THEN IF e1.err = NilPtr
          THEN NilDeref
          ELSE LET e2 == [e1 EXCEPT !.stack = heap[e1.err].stack]
               IN IF e2.stack.isnil
                  THEN [e2 EXCEPT !.stack = TakeStack(1, StacktraceMax, CallDepth + 1)]
                  ELSE e2
     ELSE [e1 EXCEPT !.stack = TakeStack(1, StacktraceMax, CallDepth + 1)]

\* NewWithSkip, called with `depth` frames on the stack
NewWithSkipAt(err, status, skip, depth) ==
  LET e1 == Chained(err, status, NoStack)
  IN IF err # Nil /\ IsChained(e1.err)
     THEN IF e1.err = NilPtr
          THEN NilDeref
          ELSE LET e2 == [e1 EXCEPT !.stack = heap[e1.err].stack]
               IN IF e2.stack.isnil
                  THEN [e2 EXCEPT !.stack = TakeStack(skip + 1, StacktraceMax, depth)]
                  ELSE e2
     ELSE [e1 EXCEPT !.stack = TakeStack(skip + 1, StacktraceMax, depth)]

NewWithSkip(err, status, skip) == NewWithSkipAt(err, status, skip, CallDepth + 1)

\* NewInvalidArgument, NewNotFound, ... : NewWithSkip(err, bstatus.New(code,
\* reason, ds), 1), one frame deeper.  detail is the variadic argument.
NewCategory(code, err, reason, detail) ==
  LET ds == IF Len(detail) > 0 THEN detail[1] ELSE NoDetail
  IN NewWithSkipAt(err, bstatusNew(code, reason, ds), 1, CallDepth + 2)

\* (d *defaultError) Status()
Status(d) == IF d = NilPtr THEN Unknown ELSE heap[d].status

\* Stack() without the nil-receiver test: d.stack is read through nil
Stack_NoNilCheck(d) ==
  IF d = NilPtr
  THEN NilDeref
  ELSE IF heap[d].stack.isnil \/ heap[d].stack.len = 0
       THEN EmptyStack
       ELSE heap[d].stack

\* (d *defaultError) Stack()
Stack(d) ==
  IF d = NilPtr \/ heap[d].stack.isnil \/ heap[d].stack.len = 0
  THEN EmptyStack
  ELSE heap[d].stack

\* (d *defaultError) Cause()
Cause(d) == IF d = NilPtr THEN RefVal(Nil) ELSE RefVal(heap[d].err)

\* (d *defaultError) Unwrap()
Unwrap(d) == IF d = NilPtr THEN RefVal(Nil) ELSE RefVal(heap[d].err)

\* JSON trees produced by marshalling a *summary
JNull == [t |-> "null"]
JStr(s) == [t |-> "jstr", s |-> s]
JObj(code, reason, detail, next) ==
  [t |-> "jobj", code |-> code, reason |-> reason, detail |-> detail, next |-> next]

\* (d *defaultError) format(): the summary of d, JNull for a nil *summary
RECURSIVE format(_)
format(d) ==
  IF d = NilPtr \/ heap[d].status = NilStatus
  THEN JNull
  ELSE LET status == heap[d].status
           err == heap[d].err
       IN JObj(status.code, status.reason, status.detail,
               IF err = Nil
               THEN JNull
               ELSE IF IsChained(err)
                    THEN format(err)
                    ELSE JStr(Message(err)))

\* (d *defaultError) Error()
Error(d) == IF d = NilPtr THEN EmptyString ELSE JsonString(format(d))

\* fields written into a zapcore.ObjectEncoder by one MarshalLogObject
LogObj(code, reason, hasDetail, detail, hasNext, next) ==
  [t |-> "logobj", code |-> code, reason |-> reason, hasDetail |-> hasDetail,
   detail |-> detail, hasNext |-> hasNext, next |-> next]

\* (d *defaultError) MarshalLogObject(enc): the object written, or the
\* panic raised.  enc.AddObject("next", next) runs next.MarshalLogObject.
RECURSIVE MarshalLogObject(_)
MarshalLogObject(d) ==
  IF d = NilPtr
  THEN NilDeref
  ELSE LET status == heap[d].status
           err == heap[d].err
       IN IF status = NilStatus
          THEN NilDeref
          ELSE LET hasDetail == status.detail # NoDetail
                   next == IF err = Nil
                           THEN NoValue
                           ELSE IF IsChained(err)
                                THEN MarshalLogObject(err)
                                ELSE Message(err)
               IN IF IsFault(next)
                  THEN next
                  ELSE LogObj(ToInt(status.code), status.reason, hasDetail,
                              status.detail, err # Nil, next)

\* errors.As(err, &e) with e of interface type Error: the first value of
\* the Unwrap chain whose dynamic type is *defaultError
RECURSIVE AsError(_)
AsError(err) ==
  IF err = Nil
  THEN [ok |-> FALSE, e |-> Nil]
  ELSE IF IsChained(err)
       THEN [ok |-> TRUE, e |-> err]
       ELSE AsError(heap[err].err)

\* IsCode(err, code)
IsCode(err, code) ==
  IF err = Nil
  THEN BoolVal(FALSE)
  ELSE LET as == AsError(err)
       IN IF ~as.ok
          THEN BoolVal(FALSE)
          ELSE IF Status(as.e) = NilStatus
               THEN NilDeref
               ELSE BoolVal(ToInt(Status(as.e).code) = ToInt(code))

\* ============================================================ part_000

\* goroutine stack frames available to a recursion before the runtime
\* aborts with a stack overflow
StackLimit == 3

\* callers(skip...): runtime.Callers(3 + skip) below Callers, callers and
\* the constructor
callers(skip) ==
  LET n == IF Len(skip) > 0 THEN 3 + skip[1] ELSE 3
  IN [t |-> "stack", id |-> Len(heap) + 1,
      len |-> Min(maxStackDepth, Max(0, (CallDepth + 3) - n)), isnil |-> FALSE]

\* New of part_000: always a new capture
New_part000(status, err) ==
  LET e == Chained(Nil, status, callers(<<>>))
  IN IF Len(err) > 0 THEN [e EXCEPT !.err = err[1]] ELSE e

newWithSkip(err, status, offset) == Chained(err, status, callers(<<offset>>))

Status_part000(d) == IF d = NilPtr THEN Unknown ELSE heap[d].status

Unwrap_part000(d) == IF d = NilPtr THEN RefVal(Nil) ELSE RefVal(heap[d].err)

\* format of part_000: Sub is d.format(), the same receiver again
RECURSIVE formatAt(_, _)
formatAt(d, frames) ==
  IF d = NilPtr \/ heap[d].status = NilStatus
  THEN JNull
  ELSE IF frames >= StackLimit
       THEN Overflow
       ELSE LET sub == formatAt(d, frames + 1)
                status == heap[d].status
            IN IF IsFault(sub)
               THEN sub
               ELSE JObj(status.code, status.reason, status.detail, sub)

format_part000(d) == formatAt(d, 0)

Error_part000(d) ==
  IF d = NilPtr
  THEN EmptyString
  ELSE LET sum == format_part000(d)
       IN IF IsFault(sum) THEN sum ELSE JsonString(sum)

\* Tracking(depth...): the number of TraceInfo entries rendered
Tracking(d, depth) ==
  IF d = NilPtr \/ heap[d].stack.isnil \/ heap[d].stack.len = 0
  THEN [t |-> "frames", n |-> 0]
  ELSE LET max == IF Len(depth) > 0 THEN depth[1] ELSE heap[d].stack.len
       IN [t |-> "frames", n |-> Min(Max(0, max), heap[d].stack.len)]

\* Wrap that builds the receiver anew, losing its stack
WrapHeap_DropsStack(d, err) ==
  IF d = NilPtr
  THEN heap
  ELSE [heap EXCEPT ![d] = Chained(err, heap[d].status, NoStack)]

\* Wrap(err): the heap after the call
WrapHeap(d, err) == IF d = NilPtr THEN heap ELSE [heap EXCEPT ![d].err = err]
\* Wrap(err): the value returned
Wrap(d, err) == IF d = NilPtr THEN RefVal(Nil) ELSE RefVal(d)

\* Is(target) = errors.Is(d, target); errors.Is calls d.Is(target) when d
\* is not target itself
RECURSIVE IsAt(_, _, _)
IsAt(d, target, frames) ==
  IF target = Nil
  THEN BoolVal(FALSE)
  ELSE IF d = target
       THEN BoolVal(TRUE)
       ELSE IF frames >= StackLimit
            THEN Overflow
            ELSE IsAt(d, target, frames + 1)

Is(d, target) == IsAt(d, target, 0)

\* As(target) = errors.As(d, target); target points to a variable of type
\* Error ("Error"), of an unrelated error type ("other"), or is nil ("nil").
\* errors.As calls d.As(target) when d is not assignable.
RECURSIVE AsAt(_, _, _)
AsAt(d, target, frames) ==
  IF target = "nil"
  THEN Fault("errors: target cannot be nil")
  ELSE IF target = "Error"
       THEN BoolVal(TRUE)
       ELSE IF frames >= StackLimit
            THEN Overflow
            ELSE AsAt(d, target, frames + 1)

As(d, target) == AsAt(d, target, 0)

AsTargets == {"Error", "other", "nil"}
\* extra frames a caller asks NewWithSkip to skip
Skips == {0, 1}
\* offsets handed to newWithSkip
Offsets == {0}
\* depth arguments of Tracking
Depths == {<<>>, <<0>>, <<1>>}

\* =============================================================== actions

\* no call is in flight: the caller is between two calls
Idle == Call("none", Nil, Nil, NilStatus, NoValue)

Init ==
  /\ pkg \in {"berror", "part_000"}
  /\ heap = <<>>
  /\ last = Idle

\* the caller takes the result of the call it made and goes on
Return ==
  /\ last # Idle
  /\ last' = Idle
  /\ UNCHANGED <<pkg, heap>>

\* a method call that reads only
Read(op, recv, arg, res) ==
  /\ last.op = "none"
  /\ last' = Call(op, recv, arg, NilStatus, res)
  /\ UNCHANGED <<pkg, heap>>

\* an error of another type, wrapping err (Nil: wrapping nothing)
NewOpaque ==
  /\ last.op = "none"
  /\ Len(heap) < MaxObjs
  /\ \E err \in Refs :
       /\ heap' = Append(heap, Opaque(err))
       /\ last' = Call("NewOpaque", Nil, err, NilStatus, RefVal(Len(heap) + 1))
  /\ UNCHANGED pkg

DoNew ==
  /\ pkg = "berror"
  /\ Len(heap) < MaxObjs
  /\ \E status \in Statuses, err \in {<<>>} \cup {<<r>> : r \in Refs} :
       Construct("New", IF Len(err) > 0 THEN err[1] ELSE Nil, status, New(status, err))
  /\ UNCHANGED pkg

DoNewWithSkip ==
  /\ pkg = "berror"
  /\ Len(heap) < MaxObjs
  /\ \E status \in Statuses, err \in Refs, skip \in Skips :
       Construct("NewWithSkip", err, status, NewWithSkip(err, status, skip))
  /\ UNCHANGED pkg

DoNewCategory ==
  /\ pkg = "berror"
  /\ Len(heap) < MaxObjs
  /\ \E code \in Codes, err \in Refs, detail \in {<<>>, <<"d">>} :
       Construct("NewCategory", err,
                 bstatusNew(code, "r", IF Len(detail) > 0 THEN detail[1] ELSE NoDetail),
                 NewCategory(code, err, "r", detail))
  /\ UNCHANGED pkg

DoError == pkg = "berror" /\ \E d \in Receivers : Read("Error", d, Nil, Error(d))
DoStatus == pkg = "berror" /\ \E d \in Receivers : Read("Status", d, Nil, Status(d))
DoStack == pkg = "berror" /\ \E d \in Receivers : Read("Stack", d, Nil, Stack(d))
DoCause == pkg = "berror" /\ \E d \in Receivers : Read("Cause", d, Nil, Cause(d))
DoUnwrap == pkg = "berror" /\ \E d \in Receivers : Read("Unwrap", d, Nil, Unwrap(d))
DoMarshalLogObject ==
  pkg = "berror" /\ \E d \in Receivers :
    Read("MarshalLogObject", d, Nil, MarshalLogObject(d))
DoIsCode ==
  pkg = "berror" /\ \E err \in Refs, code \in Codes \cup {UnknownCode} :
    Read("IsCode", err, ToInt(code), IsCode(err, code))

DoNew_part000 ==
  /\ pkg = "part_000"
  /\ Len(heap) < MaxObjs
  /\ \E status \in Statuses, err \in {<<>>} \cup {<<r>> : r \in Refs} :
       Construct("New", IF Len(err) > 0 THEN err[1] ELSE Nil, status,
                 New_part000(status, err))
  /\ UNCHANGED pkg

DonewWithSkip ==
  /\ pkg = "part_000"
  /\ Len(heap) < MaxObjs
  /\ \E status \in Statuses, err \in Refs, offset \in Offsets :
       Construct("newWithSkip", err, status, newWithSkip(err, status, offset))
  /\ UNCHANGED pkg

DoError_part000 ==
  pkg = "part_000" /\ \E d \in Receivers : Read("Error", d, Nil, Error_part000(d))
DoStatus_part000 ==
  pkg = "part_000" /\ \E d \in Receivers : Read("Status", d, Nil, Status_part000(d))
DoUnwrap_part000 ==
  pkg = "part_000" /\ \E d \in Receivers : Read("Unwrap", d, Nil, Unwrap_part000(d))
DoTracking ==
  pkg = "part_000" /\ \E d \in Receivers, depth \in Depths :
    Read("Tracking", d, IF Len(depth) > 0 THEN depth[1] ELSE -1, Tracking(d, depth))
DoIs ==
  pkg = "part_000" /\ \E d \in Receivers, target \in Refs :
    Read("Is", d, target, Is(d, target))
DoAs ==
  pkg = "part_000" /\ \E d \in Receivers, target \in AsTargets :
    Read("As", d, Nil, As(d, target))

\* Wrap assigns d.err
DoWrap ==
  /\ pkg = "part_000"
  /\ last.op = "none"
  /\ \E d \in Receivers, err \in Refs :
       /\ heap' = WrapHeap(d, err)
       /\ last' = Call("Wrap", d, err, NilStatus, Wrap(d, err))
  /\ UNCHANGED pkg

Next ==
  \/ NewOpaque
  \/ DoNew
  \/ DoNewWithSkip
  \/ DoNewCategory
  \/ DoError
  \/ DoStatus
  \/ DoStack
  \/ DoCause
  \/ DoUnwrap
  \/ DoMarshalLogObject
  \/ DoIsCode
  \/ DoNew_part000
  \/ DonewWithSkip
  \/ DoError_part000
  \/ DoStatus_part000
  \/ DoUnwrap_part000
  \/ DoTracking
  \/ DoIs
  \/ DoAs
  \/ DoWrap
  \/ Return

Spec == Init /\ [][Next]_vars

\* =============================================================== claims

Constructors == {"New", "NewWithSkip", "NewCategory", "newWithSkip"}

\* the references met by repeated Unwrap from r, at most n of them
RECURSIVE Walk(_, _)
Walk(r, n) ==
  IF r = Nil \/ n = 0
  THEN <<>>
  ELSE IF r = NilPtr THEN <<r>> ELSE <<r>> \o Walk(heap[r].err, n - 1)

Chain(r) == Walk(r, Len(heap) + 2)
\* the cause chain of r ends (Wrap can tie a chain into a cycle)
Finite(r) == Len(Chain(r)) < Len(heap) + 2

\* the number of *defaultError objects at the head of the chain of r
RECURSIVE Links(_)
Links(c) ==
  IF c = <<>> \/ ~(IsChained(Head(c)) /\ Head(c) # NilPtr)
  THEN 0
  ELSE 1 + Links(Tail(c))

\* the number of nested {code, reason, detail, next} levels of a JSON tree
RECURSIVE Levels(_)
Levels(j) == IF j.t = "jobj" THEN 1 + Levels(j.next) ELSE 0

\* what the innermost next of a JSON tree holds
RECURSIVE Innermost(_)
Innermost(j) == IF j.t = "jobj" THEN Innermost(j.next) ELSE j

\* the last call was op on a constructed (non-nil) *defaultError
On(op) == last.op = op /\ last.recv \in 1..Len(heap)

\* C1: New and NewWithSkip given a ChainedError cause with stack S return
\* an error whose stack is the very same sequence S (same backing array,
\* same length), not a new capture.
C1_StackInherited ==
  (/\ last.op \in {"New", "NewWithSkip"}
   /\ last.res.t = "ref"
   /\ last.arg \in 1..Len(heap)
   /\ heap[last.arg].kind = "chained")
  => heap[last.res.r].stack = heap[last.arg].stack

\* C2: on a nil *defaultError, Error() returns "", Status() the Unknown
\* sentinel, Stack() an empty non-nil list, Cause() and Unwrap() nil, and
\* none of them panics.
C2_NilSafety ==
  last.recv = NilPtr =>
    /\ last.op = "Error" => last.res = EmptyString
    /\ last.op = "Status" => last.res = Unknown
    /\ last.op = "Stack" => last.res = EmptyStack
    /\ last.op = "Cause" => last.res = RefVal(Nil)
    /\ last.op = "Unwrap" => last.res = RefVal(Nil)

\* C2 witness: Stack() has been called on a nil *defaultError and returned
\* the empty list
C2_Witness ==
  last.op = "Stack" /\ last.recv = NilPtr /\ last.res.t = "stack" /\ ~last.res.isnil

\* the outermost structured link of the chain of err carries the code
\* whose integer is n
OutermostHasCode(err, n) ==
  LET c == Chain(err)
  IN \E i \in 1..Len(c) :
       /\ IsChained(c[i])
       /\ \A j \in 1..(i - 1) : ~IsChained(c[j])
       /\ Status(c[i]) # NilStatus
       /\ ToInt(Status(c[i]).code) = n

\* C3: IsCode(err, code) returns true exactly when the outermost
\* structured link reachable from err by Unwrap carries code, and false
\* otherwise (nil err, no structured link, only a deeper link matching).
C3_IsCodeOutermost ==
  last.op = "IsCode" => last.res = BoolVal(OutermostHasCode(last.recv, last.arg))

\* every *defaultError of the chain c carries a status
Statused(c) ==
  \A i \in 1..Len(c) : (c[i] # NilPtr /\ IsChained(c[i])) => heap[c[i]].status # NilStatus

\* C4: Error() on a chain of k ChainedError links (each carrying a status,
\* so that it has a code and a reason to show) yields a summary nested
\* k levels deep in all (k-1 below the top), whose innermost next is null
\* when the chain ends without cause and the opaque error's message when
\* it ends in an opaque error.
C4_SerializationShape ==
  (On("Error") /\ Finite(last.recv) /\ Statused(Chain(last.recv))) =>
    LET c == Chain(last.recv)
        k == Links(c)
    IN /\ last.res.t = "string"
       /\ ~last.res.empty
       /\ Levels(last.res.json) = k
       /\ Innermost(last.res.json) =
            IF k < Len(c) /\ IsOpaque(c[k + 1]) THEN JStr(Message(c[k + 1])) ELSE JNull

\* C5: every constructor call returns a non-nil error and does not panic,
\* whatever the status and the cause (nil, opaque, ChainedError, typed nil).
C5_ConstructionTotal ==
  last.op \in Constructors => (last.res.t = "ref" /\ last.res.r \in 1..Len(heap))

\* C6: on an error constructed with a nil status, Status() reports the
\* Unknown sentinel, Error() serializes a summary carrying the unknown
\* code, and IsCode and MarshalLogObject do not panic.
C6_NilStatusUnknown ==
  (last.recv \in 1..Len(heap) /\ heap[last.recv].kind = "chained"
   /\ heap[last.recv].status = NilStatus) =>
    /\ last.op = "Status" => last.res = Unknown
    /\ last.op = "Error" =>
         (last.res.t = "string" /\ ~last.res.empty /\ last.res.json.t = "jobj"
          /\ last.res.json.code = UnknownCode)
    /\ last.op \in {"IsCode", "MarshalLogObject"} => ~IsFault(last.res)

\* C7 as stated: no operation changes the cause, status or stack of an
\* error that has been constructed.
C7_Immutable == [][\A i \in 1..Len(heap) : heap'[i] = heap[i]]_vars

\* C7 amended: no operation changes the status or the stack of a
\* constructed error; only Wrap changes a cause, and only its receiver's.
C7_ImmutableButWrappedCause ==
  [][\A i \in 1..Len(heap) :
       /\ heap'[i].status = heap[i].status
       /\ heap'[i].stack = heap[i].stack
       /\ heap'[i].kind = heap[i].kind
       /\ (last'.op # "Wrap" \/ last'.recv # i) => heap'[i].err = heap[i].err]_vars

\* C7 witness: Wrap has replaced the cause of a constructed error (an
\* error that is its own cause cannot come out of a constructor)
C7_Witness ==
  /\ On("Wrap")
  /\ heap[last.recv].err = last.recv
  /\ heap[last.recv].status # NilStatus
  /\ ~heap[last.recv].stack.isnil

\* C8: Error() on a non-nil ChainedError with a finite cause chain
\* terminates and returns a string.
C8_ErrorTerminates ==
  (On("Error") /\ Finite(last.recv)) => last.res.t = "string"

\* C9: MarshalLogObject on a nil *defaultError, or on a chain that holds a
\* nil *defaultError cause, returns without panic.
C9_MarshalNilInert ==
  (/\ last.op = "MarshalLogObject"
   /\ \E i \in 1..Len(Chain(last.recv)) : Chain(last.recv)[i] = NilPtr)
  => ~IsFault(last.res)

\* the object log mirrors the summary sum at every depth
RECURSIVE Mirrors(_, _)
Mirrors(log, sum) ==
  /\ log.t = "logobj"
  /\ sum.t = "jobj"
  /\ log.code = ToInt(sum.code)
  /\ log.reason = sum.reason
  /\ log.hasDetail = (sum.detail # NoDetail)
  /\ log.detail = sum.detail
  /\ log.hasNext = (sum.next # JNull)
  /\ log.hasNext =>
       IF sum.next.t = "jobj"
       THEN Mirrors(log.next, sum.next)
       ELSE sum.next = JStr(log.next)

\* C10: the object MarshalLogObject writes mirrors the summary format()
\* builds for the same error: same code (as integer), reason, detail and
\* next at every depth, over the same number of links.
C10_LogMirrorsFormat ==
  On("MarshalLogObject") => Mirrors(last.res, format(last.recv))

\* ------------------------------------------------------ supporting lemmas
\* what error.go does where the statements above fail

\* error.go alone inherits the stack of a *defaultError cause
Lemma_StackInheritedInErrorGo == pkg = "berror" => C1_StackInherited

\* IsCode answers for the outermost structured link whenever that link
\* carries a status
Lemma_IsCodeWhenStatused ==
  (last.op = "IsCode" /\ Statused(Chain(last.recv))) =>
    last.res = BoolVal(OutermostHasCode(last.recv, last.arg))

\* error.go alone serializes every status-carrying chain in full
Lemma_ShapeInErrorGo == pkg = "berror" => C4_SerializationShape

\* the constructors fail on a typed-nil cause only
Lemma_ConstructionTotalButTypedNil ==
  (last.op \in Constructors /\ last.arg # NilPtr) =>
    (last.res.t = "ref" /\ last.res.r \in 1..Len(heap))

\* Error() of error.go returns a string for every receiver
Lemma_ErrorTerminatesInErrorGo == pkg = "berror" => C8_ErrorTerminates

\* MarshalLogObject mirrors format() on every status-carrying chain
Lemma_LogMirrorsWhenStatused ==
  (On("MarshalLogObject") /\ Statused(Chain(last.recv))) =>
    Mirrors(last.res, format(last.recv))
====
